---- MODULE Spec2Model ----
(***************************************************************************)
(* s3bin (src/cmd/s3bin/s3bin.go): Put, Get and GetDir over a local file   *)
(* system and an S3 bucket.                                                *)
(*                                                                         *)
(* Representation.  File contents, file names, digests and storage keys    *)
(* are byte strings: sequences of numbers 0..255 (ASCII for text).  The    *)
(* file system is a function from the paths that exist to their nodes,     *)
(* the bucket a function from the keys that hold an object to the object.  *)
(* An object is what gzip/tar make of it for the reader: whether it is a   *)
(* gzip stream at all, and the sequence of tar entries in it.              *)
(***************************************************************************)
EXTENDS Integers, Sequences, FiniteSets, TLC

VARIABLES fs, store, last, track, nops

vars == <<fs, store, last, track, nops>>

(***************************************************************************)
(* Bounds of the model.                                                    *)
(***************************************************************************)
\* operations performed in one behaviour
MaxOps == 3

(***************************************************************************)
(* Bytes and text.                                                         *)
(***************************************************************************)
Rep(b, n) == [i \in 1..n |-> b]

\* "/" as os.PathSeparator and as the separator of storeKey's format string
Slash == <<47>>

\* ".sha1"
ExtSha1 == <<46, 115, 104, 97, 49>>

HasSuffix(s, suffix) ==
    /\ Len(s) >= Len(suffix)
    /\ SubSeq(s, Len(s) - Len(suffix) + 1, Len(s)) = suffix

\* TrimSuffix that cuts the length of the suffix without comparing it
TrimSuffixBlind(s, suffix) ==
    IF Len(s) >= Len(suffix) THEN SubSeq(s, 1, Len(s) - Len(suffix)) ELSE s

\* strings.TrimSuffix
TrimSuffix(s, suffix) ==
    IF HasSuffix(s, suffix) THEN SubSeq(s, 1, Len(s) - Len(suffix)) ELSE s

\* strings.ToLower, on ASCII
ToLower(s) == [i \in 1..Len(s) |-> IF s[i] \in 65..90 THEN s[i] + 32 ELSE s[i]]

\* unicode.IsSpace, on ASCII: \t \n \v \f \r and the space
IsSpace(c) == c \in {9, 10, 11, 12, 13, 32}

RECURSIVE TrimLeft(_)
TrimLeft(s) ==
    IF s /= <<>> /\ IsSpace(Head(s)) THEN TrimLeft(Tail(s)) ELSE s

RECURSIVE TrimRight(_)
TrimRight(s) ==
    IF s /= <<>> /\ IsSpace(s[Len(s)])
    THEN TrimRight(SubSeq(s, 1, Len(s) - 1))
    ELSE s

\* strings.TrimSpace
TrimSpace(s) == TrimRight(TrimLeft(s))

\* the digit of hex.EncodeToString's table "0123456789abcdef"
HexDigit(n) == IF n < 10 THEN 48 + n ELSE 87 + n

\* hex.EncodeToString: two lower-case digits per byte, high nibble first
HexEncode(bs) ==
    [i \in 1..(2 * Len(bs)) |->
        IF i % 2 = 1 THEN HexDigit(bs[(i + 1) \div 2] \div 16)
                     ELSE HexDigit(bs[i \div 2] % 16)]

IsHexChar(c) == c \in (48..57) \cup (97..102) \cup (65..70)


(***************************************************************************)
(* Errors.  An error value keeps its outermost message and its cause (what *)
(* errors.Cause returns); Nil is Go's nil error.                           *)
(***************************************************************************)
Nil == [msg |-> "", cause |-> ""]

\* errors.New / errors.Errorf
ErrNew(msg) == [msg |-> msg, cause |-> msg]

\* an error of the operating system or of a library, before any wrapping
ErrSys(cause) == [msg |-> cause, cause |-> cause]

\* errors.Wrap / errors.Wrapf of github.com/pkg/errors: nil stays nil
Wrap(err, msg) == IF err = Nil THEN Nil ELSE [msg |-> msg, cause |-> err.cause]

\* os.IsNotExist(errors.Cause(err))
\* IsNotExist that takes a refused permission for absence too
IsNotExistOrPermission(err) == err.cause \in {"ENOENT", "EACCES"}

IsNotExist(err) == err.cause = "ENOENT"

(***************************************************************************)
(* The local file system.                                                  *)
(***************************************************************************)
File(data, mode) == [kind |-> "file", data |-> data, mode |-> mode]

Dir == [kind |-> "dir", data |-> <<>>, mode |-> 493]

WriteNode(f, p, node) ==
    [q \in (DOMAIN f) \cup {p} |-> IF q = p THEN node ELSE f[q]]

RemoveNode(f, p) == [q \in (DOMAIN f) \ {p} |-> f[q]]

\* one call of the program to the operating system or to S3, as observed
Ev(call, arg) == [call |-> call, arg |-> arg]

\* mode of a file os.Create makes (0666 under the usual umask 022)
DefaultMode == 420

\* mode of a pointer file ioutil.WriteFile makes (0644)
PointerMode == 420

\* os.FileMode(m) as Chmod applies it: the permission bits
Perm(m) == m % 512

\* the first n bytes of data
Prefix(data, n) == SubSeq(data, 1, IF n < Len(data) THEN n ELSE Len(data))

(***************************************************************************)
(* Hasher.  crypto/sha1 is represented by a table over the contents the    *)
(* model uses: an injective map to 20-byte sums.  The sums are stand-ins;  *)
(* those of DataHI and DataX agree on their first 10 bytes, which SHA-1    *)
(* does not exclude.                                                       *)
(***************************************************************************)
DataEmpty == <<>>
DataH == <<72>>
DataHI == <<72, 73>>
DataX == <<88>>

Contents == {DataEmpty, DataH, DataHI, DataX}

Sha1Sum(data) ==
    CASE data = DataEmpty -> Rep(218, 20)
      [] data = DataH     -> Rep(29, 20)
      [] data = DataHI    -> Rep(171, 10) \o Rep(1, 10)
      [] data = DataX     -> Rep(171, 10) \o Rep(2, 10)

\* line 276 on each content of the model, evaluated once
Sha1Hex == [data \in Contents |-> ToLower(HexEncode(Sha1Sum(data)))]

\* the digest text of a content: strings.ToLower(hex.EncodeToString(hash.Sum(nil)))
HashOf(data) == Sha1Hex[data]

\* calcSha1(path); fault names the call that fails for an outside reason
calcSha1(f, path, fault) ==
    LET io == <<Ev("Open", path)>> IN
    IF path \notin DOMAIN f
    THEN [hash |-> <<>>, err |-> Wrap(ErrSys("ENOENT"), "failed to open file"), io |-> io]
    ELSE IF fault = "calcSha1.Open"
    THEN [hash |-> <<>>, err |-> Wrap(ErrSys("EACCES"), "failed to open file"), io |-> io]
    ELSE IF f[path].kind = "dir"
    THEN [hash |-> <<>>, err |-> Wrap(ErrSys("EISDIR"), "failed to read file"), io |-> io]
    ELSE IF fault = "calcSha1.Read"
    THEN [hash |-> <<>>, err |-> Wrap(ErrSys("EIO"), "failed to read file"), io |-> io]
    ELSE [hash |-> HashOf(f[path].data), err |-> Nil, io |-> io]

(***************************************************************************)
(* Key Deriver.                                                            *)
(***************************************************************************)
\* storeKey with one segment less
storeKeyShort(hash) ==
    SubSeq(hash, 1, 4) \o Slash \o SubSeq(hash, 5, 8) \o Slash \o
    SubSeq(hash, 9, 12) \o Slash \o SubSeq(hash, 13, 16)

storeKey(hash) ==
    SubSeq(hash, 1, 4) \o Slash \o SubSeq(hash, 5, 8) \o Slash \o
    SubSeq(hash, 9, 12) \o Slash \o SubSeq(hash, 13, 16) \o Slash \o
    SubSeq(hash, 17, 20)

(***************************************************************************)
(* Envelope: header JSON, tar entries, gzip.                               *)
(***************************************************************************)
version == 1

\* {"version":
JsonOpen == <<123, 34, 118, 101, 114, 115, 105, 111, 110, 34, 58>>

\* }
JsonClose == <<125>>

\* json.Marshal(&Header{Version: v}), for a one-digit v
Marshal(header) == JsonOpen \o <<48 + header.Version>> \o JsonClose

\* json.Unmarshal(bytes, &header) on the documents the model's objects hold:
\* {"version":d} for a digit d, and {} (the field keeps its zero value);
\* anything else is no JSON object
Unmarshal(bytes) ==
    IF /\ Len(bytes) = Len(JsonOpen) + 2
       /\ SubSeq(bytes, 1, Len(JsonOpen)) = JsonOpen
       /\ bytes[Len(JsonOpen) + 1] \in 48..57
       /\ bytes[Len(bytes)] = 125
    THEN [header |-> [Version |-> bytes[Len(JsonOpen) + 1] - 48], err |-> Nil]
    ELSE IF bytes = <<123, 125>>
    THEN [header |-> [Version |-> 0], err |-> Nil]
    ELSE [header |-> [Version |-> 0], err |-> ErrSys("invalid JSON")]

\* one tar entry: tar.Header{Name, Mode, Size} and its body
Entry(name, mode, body) ==
    [name |-> name, mode |-> mode, size |-> Len(body), body |-> body]

\* an object of the bucket
Blob(isGzip, entries) == [gzip |-> isGzip, tar |-> entries]

\* Pack that gives the data entry the mode of the header entry
PackHeaderMode(header, data, mode) ==
    Blob(TRUE, <<Entry("header", 384, Marshal(header)), Entry("data", 384, data)>>)

\* the object Put builds (lines 80-122)
Pack(header, data, mode) ==
    Blob(TRUE, <<Entry("header", 384, Marshal(header)), Entry("data", mode, data)>>)

(***************************************************************************)
(* Sync Engine.  Put and Get are given as functions of the file system f   *)
(* and the bucket s before the call: they return the file system and the   *)
(* bucket after it, the error returned (Nil for success) and the calls     *)
(* made, in order.  fault names the one call that fails for a reason       *)
(* outside the model (permissions, disk, network), "none" if none does;    *)
(* cut is the number of bytes a failing write gets out before it fails.    *)
(***************************************************************************)
Ret(f, s, err, io) == [fs |-> f, store |-> s, err |-> err, io |-> io]

\* WriteFile that opens with O_APPEND in place of O_TRUNC
WriteFileAppend(f, name, data, fault, cut) ==
    LET old == IF name \in DOMAIN f THEN f[name].data ELSE <<>>
        mode == IF name \in DOMAIN f THEN f[name].mode ELSE PointerMode
    IN [fs |-> WriteNode(f, name, File(old \o data, mode)), err |-> Nil]

\* WriteFile that writes every hash file under the one name ".sha1"
WriteFileOneName(f, name, data, fault, cut) ==
    LET mode == IF ExtSha1 \in DOMAIN f THEN f[ExtSha1].mode ELSE PointerMode IN
    IF fault \in {"WriteFile.Open", "WriteFile.Write"}
    THEN [fs |-> f, err |-> ErrSys("EACCES")]
    ELSE [fs |-> WriteNode(f, ExtSha1, File(data, mode)), err |-> Nil]

\* WriteFile given the path of the file in place of the hash file's
WriteFileOverOriginal(f, name, data, fault, cut) ==
    LET path == SubSeq(name, 1, Len(name) - Len(ExtSha1))
        mode == IF path \in DOMAIN f THEN f[path].mode ELSE PointerMode
    IN [fs |-> WriteNode(f, path, File(data, mode)), err |-> Nil]

\* ioutil.WriteFile(name, data, 0644): open with O_CREATE|O_TRUNC, write
WriteFile(f, name, data, fault, cut) ==
    IF fault = "WriteFile.Open"
    THEN [fs |-> f, err |-> ErrSys("EACCES")]
    ELSE IF name \in DOMAIN f /\ f[name].kind = "dir"
    THEN [fs |-> f, err |-> ErrSys("EISDIR")]
    ELSE LET mode == IF name \in DOMAIN f THEN f[name].mode ELSE PointerMode IN
         IF fault = "WriteFile.Write"
         THEN [fs |-> WriteNode(f, name, File(Prefix(data, cut), mode)),
               err |-> ErrSys("EIO")]
         ELSE [fs |-> WriteNode(f, name, File(data, mode)), err |-> Nil]

\* PutObject that empties the bucket first
PutObjectAlone(s, key, body) == [k \in {key} |-> body]

\* lines 124-128: svc.PutObject, the object under key is body from now on
PutObject(s, key, body) ==
    [k \in (DOMAIN s) \cup {key} |-> IF k = key THEN body ELSE s[k]]

\* Put that writes the hash file before it uploads
PutPointerFirst(f, s, path, fault, cut) ==
    LET h == calcSha1(f, path, fault) IN
    IF h.err /= Nil THEN Ret(f, s, h.err, h.io) ELSE
    LET io1 == h.io \o <<Ev("Open", path)>> IN
    IF fault = "Open"
    THEN Ret(f, s, Wrap(ErrSys("EACCES"), "failed to open file"), io1) ELSE
    IF fault = "Stat"
    THEN Ret(f, s, Wrap(ErrSys("EIO"), "failed to read file attributes"), io1) ELSE
    IF fault = "Copy"
    THEN Ret(f, s, Wrap(ErrSys("EIO"), "failed to read file"), io1) ELSE
    LET hashFile == path \o ExtSha1
        w == WriteFile(f, hashFile, h.hash, fault, cut)
        io2 == io1 \o <<Ev("WriteFile", hashFile)>>
    IN
    IF w.err /= Nil
    THEN Ret(w.fs, s, Wrap(w.err, "failed to create hash file"), io2) ELSE
    LET key == storeKey(h.hash)
        io3 == io2 \o <<Ev("PutObject", key)>>
    IN
    IF fault = "PutObject"
    THEN Ret(w.fs, s, Wrap(ErrSys("RequestError"), "failed to write file in s3"), io3)
    ELSE Ret(w.fs,
             PutObject(s, key, Pack([Version |-> version], f[path].data, f[path].mode)),
             Nil, io3)

\* lines 63-141
Put(f, s, path, fault, cut) ==
    LET h == calcSha1(f, path, fault) IN
    IF h.err /= Nil THEN Ret(f, s, h.err, h.io) ELSE
    LET io1 == h.io \o <<Ev("Open", path)>> IN
    IF fault = "Open"
    THEN Ret(f, s, Wrap(ErrSys("EACCES"), "failed to open file"), io1) ELSE
    IF fault = "Stat"
    THEN Ret(f, s, Wrap(ErrSys("EIO"), "failed to read file attributes"), io1) ELSE
    LET fstat == f[path]
        header == [Version |-> version]
    IN
    IF fault = "Copy"
    THEN Ret(f, s, Wrap(ErrSys("EIO"), "failed to read file"), io1) ELSE
    LET body == Pack(header, fstat.data, fstat.mode)
        key == storeKey(h.hash)
        io2 == io1 \o <<Ev("PutObject", key)>>
    IN
    IF fault = "PutObject"
    THEN Ret(f, s, Wrap(ErrSys("RequestError"), "failed to write file in s3"), io2) ELSE
    LET s2 == PutObject(s, key, body)
        hashFile == path \o ExtSha1
        w == WriteFile(f, hashFile, h.hash, fault, cut)
        io3 == io2 \o <<Ev("WriteFile", hashFile)>>
    IN
    Ret(w.fs, s2, Wrap(w.err, "failed to create hash file"), io3)

\* PointerDigest without strings.ToLower
PointerDigestAsIs(sha1Bytes) == TrimSpace(sha1Bytes)

\* line 154
PointerDigest(sha1Bytes) == ToLower(TrimSpace(sha1Bytes))

\* Install without the Chmod of lines 236-239
InstallWithoutChmod(f, s, targetFile, tarHdr, io, fault, cut) ==
    LET mode == IF targetFile \in DOMAIN f THEN f[targetFile].mode ELSE DefaultMode IN
    Ret(WriteNode(f, targetFile, File(tarHdr.body, mode)), s, Nil,
        io \o <<Ev("Create", targetFile)>>)

\* Install given the path of the pointer file in place of the target's
InstallOverPointer(f, s, targetFile, tarHdr, io, fault, cut) ==
    Ret(WriteNode(f, targetFile \o ExtSha1, File(tarHdr.body, Perm(tarHdr.mode))), s, Nil,
        io \o <<Ev("Create", targetFile \o ExtSha1), Ev("Chmod", targetFile \o ExtSha1)>>)

\* lines 225-241: create or truncate the target, copy the data entry, chmod
Install(f, s, targetFile, tarHdr, io, fault, cut) ==
    LET io1 == io \o <<Ev("Create", targetFile)>> IN
    IF targetFile = <<>>
    THEN Ret(f, s, Wrap(ErrSys("ENOENT"), "failed to create target file"), io1) ELSE
    IF fault = "Create"
    THEN Ret(f, s, Wrap(ErrSys("EACCES"), "failed to create target file"), io1) ELSE
    IF targetFile \in DOMAIN f /\ f[targetFile].kind = "dir"
    THEN Ret(f, s, Wrap(ErrSys("EISDIR"), "failed to create target file"), io1) ELSE
    LET mode == IF targetFile \in DOMAIN f THEN f[targetFile].mode ELSE DefaultMode IN
    IF fault = "Copy"
    THEN Ret(WriteNode(f, targetFile, File(Prefix(tarHdr.body, cut), mode)), s,
             Wrap(ErrSys("EIO"), "failed to copy file"), io1) ELSE
    LET io2 == io1 \o <<Ev("Chmod", targetFile)>> IN
    IF fault = "Chmod"
    THEN Ret(WriteNode(f, targetFile, File(tarHdr.body, mode)), s,
             Wrap(ErrSys("EPERM"), "failed to set file mode"), io2)
    ELSE Ret(WriteNode(f, targetFile, File(tarHdr.body, Perm(tarHdr.mode))), s, Nil, io2)

\* Unpack that creates the target before it looks at the object
UnpackCreateFirst(f, s, targetFile, body, io, fault, cut) ==
    LET mode == IF targetFile \in DOMAIN f THEN f[targetFile].mode ELSE DefaultMode
        f1 == WriteNode(f, targetFile, File(<<>>, mode))
        bad == \/ ~body.gzip
               \/ Len(body.tar) < 2
               \/ body.tar[1].name /= "header"
               \/ Unmarshal(body.tar[1].body).err /= Nil
               \/ Unmarshal(body.tar[1].body).header.Version /= version
               \/ body.tar[2].name /= "data"
    IN IF bad THEN Ret(f1, s, ErrNew("bad object"), io)
       ELSE Install(f1, s, targetFile, body.tar[2], io, fault, cut)

\* lines 186-241: read the object got from the bucket and install its data
Unpack(f, s, targetFile, body, io, fault, cut) ==
    IF ~body.gzip
    THEN Ret(f, s, Wrap(ErrSys("gzip: invalid header"), "failed to create gzip reader"), io) ELSE
    IF Len(body.tar) < 1
    THEN Ret(f, s, Wrap(ErrSys("EOF"), "tarReader.Next"), io) ELSE
    IF body.tar[1].name /= "header"
    THEN Ret(f, s, ErrNew("tar does not have 'header'"), io) ELSE
    LET u == Unmarshal(body.tar[1].body) IN
    IF u.err /= Nil
    THEN Ret(f, s, Wrap(u.err, "json.Unmarshal"), io) ELSE
    IF u.header.Version /= version
    THEN Ret(f, s, Wrap(u.err, "unsupported version"), io) ELSE
    IF Len(body.tar) < 2
    THEN Ret(f, s, Wrap(ErrSys("EOF"), "tarReader.Next"), io) ELSE
    IF body.tar[2].name /= "data"
    THEN Ret(f, s, ErrNew("tar does not have 'data'"), io)
    ELSE Install(f, s, targetFile, body.tar[2], io, fault, cut)

\* lines 173-184: the request to the bucket
Fetch(f, s, targetFile, sha1Str, io, fault, cut) ==
    LET key == storeKey(sha1Str)
        io1 == io \o <<Ev("GetObject", key)>>
    IN
    IF fault = "GetObject"
    THEN Ret(f, s, Wrap(ErrSys("RequestError"), "failed to read from S3 bucket"), io1) ELSE
    IF key \notin DOMAIN s
    THEN Ret(f, s, Wrap(ErrSys("NoSuchKey"), "failed to read from S3 bucket"), io1)
    ELSE Unpack(f, s, targetFile, s[key], io1, fault, cut)

\* lines 143-242
Get(f, s, sha1File, fault, cut) ==
    LET targetFile == TrimSuffix(sha1File, ExtSha1) IN
    IF targetFile = sha1File
    THEN Ret(f, s, ErrNew("SHA1 file doesn't have .sha1 extension"), <<>>) ELSE
    LET io1 == <<Ev("ReadFile", sha1File)>>
        rerr == IF sha1File \notin DOMAIN f THEN ErrSys("ENOENT")
                ELSE IF fault = "ReadFile" THEN ErrSys("EACCES")
                ELSE IF f[sha1File].kind = "dir" THEN ErrSys("EISDIR")
                ELSE Nil
    IN
    IF rerr /= Nil
    THEN Ret(f, s, Wrap(rerr, "failed to read sha1 file"), io1) ELSE
    LET sha1Str == PointerDigest(f[sha1File].data) IN
    IF Len(sha1Str) /= 40
    THEN Ret(f, s, Wrap(rerr, "sha1 file is invalid"), io1) ELSE
    LET h == calcSha1(f, targetFile, fault)
        io2 == io1 \o h.io
    IN
    IF h.err = Nil /\ h.hash = sha1Str
    THEN Ret(f, s, Nil, io2) ELSE
    IF h.err /= Nil /\ ~IsNotExist(h.err)
    THEN Ret(f, s, h.err, io2)
    ELSE Fetch(f, s, targetFile, sha1Str, io2, fault, cut)

(***************************************************************************)
(* Batch Resolver.  filepath.Walk, with GetDir's closure as its WalkFunc.  *)
(* st is the state the walk threads through: the file system, the bucket,  *)
(* the error of the last call and the trace of the Get calls made (and of  *)
(* the failed calls of the walk itself).  env holds the faults of the      *)
(* run: the fault of the k-th Get call, and the Lstat or ReadDir call of   *)
(* the walk that fails.                                                    *)
(***************************************************************************)
\* filepath.Ext: from the last dot of the last element of the path
RECURSIVE ExtFrom(_, _)
ExtFrom(path, i) ==
    IF i < 1 \/ path[i] = 47 THEN <<>>
    ELSE IF path[i] = 46 THEN SubSeq(path, i, Len(path))
    ELSE ExtFrom(path, i - 1)

Ext(path) == ExtFrom(path, Len(path))

\* filepath.Base, which info.Name() is
RECURSIVE BaseFrom(_, _)
BaseFrom(path, i) ==
    IF i < 1 \/ path[i] = 47 THEN SubSeq(path, i + 1, Len(path))
    ELSE BaseFrom(path, i - 1)

Base(path) == BaseFrom(path, Len(path))

\* the byte order of strings, by which readDirNames sorts
LexLess(a, b) ==
    \E i \in 1..(Len(a) + 1) :
        /\ i <= Len(b)
        /\ SubSeq(a, 1, i - 1) = SubSeq(b, 1, i - 1)
        /\ (i = Len(a) + 1 \/ a[i] < b[i])

\* the entries of directory dir
Children(f, dir) ==
    {p \in DOMAIN f :
        /\ Len(p) > Len(dir) + 1
        /\ SubSeq(p, 1, Len(dir) + 1) = dir \o Slash
        /\ \A i \in (Len(dir) + 2)..Len(p) : p[i] /= 47}

First(paths) == CHOOSE p \in paths : \A q \in paths \ {p} : LexLess(p, q)

Lstat(f, env, path) ==
    IF path \notin DOMAIN f THEN ErrSys("ENOENT")
    ELSE IF env.wcall = "Lstat" /\ env.wpath = path THEN ErrSys("EACCES")
    ELSE Nil

Traced(st, call, path, err) ==
    Append(st.gets, [call |-> call, path |-> path, err |-> err])

RECURSIVE GetDir(_, _, _)
RECURSIVE walk(_, _, _, _)
RECURSIVE walkNames(_, _, _, _)

\* the closure, dropping the error of the GetDir of a subdirectory
walkFnKeepGoing(st, env, root, path, err) ==
    IF err /= Nil
    THEN [st EXCEPT !.err = err, !.gets = Traced(st, env.wcall, path, err)] ELSE
    IF st.fs[path].kind = "dir" /\ path /= root
    THEN [GetDir(st, env, path) EXCEPT !.err = Nil] ELSE
    IF Ext(path) /= ExtSha1
    THEN [st EXCEPT !.err = Nil]
    ELSE LET r == Get(st.fs, st.store, path,
                      IF Len(st.gets) + 1 = env.k THEN env.fault ELSE "none", env.cut)
         IN [fs |-> r.fs, store |-> r.store, err |-> r.err,
             gets |-> Traced(st, "Get", path, r.err)]

\* lines 246-260: the closure GetDir passes to filepath.Walk
walkFn(st, env, root, path, err) ==
    IF err /= Nil
    THEN [st EXCEPT !.err = err, !.gets = Traced(st, env.wcall, path, err)] ELSE
    IF st.fs[path].kind = "dir" /\ path /= root /\ Base(path) /= <<46>> /\ Base(path) /= <<46, 46>>
    THEN GetDir(st, env, path) ELSE
    IF Ext(path) /= ExtSha1
    THEN [st EXCEPT !.err = Nil]
    ELSE LET fault == IF Len(st.gets) + 1 = env.k THEN env.fault ELSE "none"
             r == Get(st.fs, st.store, path, fault, env.cut)
         IN [fs |-> r.fs, store |-> r.store, err |-> r.err,
             gets |-> Traced(st, "Get", path, r.err)]

\* filepath.walk: the WalkFunc on path, then on the entries of a directory,
\* in the order of their names as read before the WalkFunc ran
walk(st, env, root, path) ==
    IF st.fs[path].kind /= "dir" THEN walkFn(st, env, root, path, Nil) ELSE
    LET names == Children(st.fs, path)
        err == IF env.wcall = "ReadDir" /\ env.wpath = path THEN ErrSys("EACCES") ELSE Nil
        st1 == walkFn(st, env, root, path, err)
    IN IF err /= Nil \/ st1.err /= Nil THEN st1
       ELSE walkNames(st1, env, root, names)

walkNames(st, env, root, names) ==
    IF names = {} THEN [st EXCEPT !.err = Nil] ELSE
    LET filename == First(names)
        err == Lstat(st.fs, env, filename)
        st1 == IF err /= Nil THEN walkFn(st, env, root, filename, err)
               ELSE walk(st, env, root, filename)
    IN IF st1.err /= Nil THEN st1
       ELSE walkNames(st1, env, root, names \ {filename})

\* lines 244-261, with filepath.Walk's start at root
GetDir(st, env, root) ==
    LET err == Lstat(st.fs, env, root) IN
    IF err /= Nil THEN walkFn(st, env, root, root, err)
    ELSE walk(st, env, root, root)

(***************************************************************************)
(* The program run on one file: a.bin and its pointer file a.bin.sha1.     *)
(* Each step is one invocation of s3bin (-put or -get), or the user        *)
(* removing or rewriting the file between invocations.                     *)
(*   last   the last invocation: its operation, argument and fault, the    *)
(*          error it returned, the calls it made, the Get calls of a       *)
(*          GetDir, and the file system and bucket it started from         *)
(*   track  follows a successful Put of a file through what comes next     *)
(*   nops   the number of steps taken                                      *)
(***************************************************************************)
\* "a.bin"
PathA == <<97, 46, 98, 105, 110>>

PointerA == PathA \o ExtSha1

\* the largest number of bytes a failing write gets out
MaxCut == 1

Cuts == 0..MaxCut

PutFaults == {"none", "calcSha1.Open", "calcSha1.Read", "Open", "Stat", "Copy",
              "PutObject", "WriteFile.Open", "WriteFile.Write"}

GetFaults == {"none", "ReadFile", "calcSha1.Open", "calcSha1.Read", "GetObject",
              "Create", "Copy", "Chmod"}

\* the faults that leave a partly written file, each with every cut
PartialFaults == {"WriteFile.Write", "Copy"}

Faulted(faults) ==
    {<<fault, 0>> : fault \in faults} \cup
    {<<fault, cut>> : fault \in faults \cap PartialFaults, cut \in Cuts}

\* the files the user may write
UserFiles == {File(DataEmpty, 384), File(DataH, 493), File(DataHI, 420), File(DataX, 420)}

Upper(text) == [i \in 1..Len(text) |-> IF text[i] \in 97..122 THEN text[i] - 32 ELSE text[i]]

\* pointer files as the user may have them: as Put writes them; in upper
\* case with surrounding white space; too short; 40 characters that are
\* not hexadecimal
InitPointers ==
    { HashOf(DataH),
      <<32>> \o Upper(HashOf(DataHI)) \o <<13, 10>>,
      <<97, 98, 99>>,
      Rep(122, 40) }

InitTargets == {File(DataH, 493), File(DataEmpty, 420)}

OneObject(key, body) == [k \in {key} |-> body]

NoObjects == [k \in {} |-> Blob(FALSE, <<>>)]

\* buckets as other clients may have left them: empty; as Put leaves them;
\* another content under the key; a header of version 2; the entries
\* swapped; no second entry; no gzip stream; a second entry of another name,
\* after a header of version 1 and of version 2; an object under the key of
\* a text that is no digest
InitStores ==
    { NoObjects,
      OneObject(storeKey(HashOf(DataH)), Pack([Version |-> version], DataH, 493)),
      OneObject(storeKey(HashOf(DataHI)), Pack([Version |-> version], DataX, 420)),
      OneObject(storeKey(HashOf(DataH)), Pack([Version |-> 2], DataH, 493)),
      OneObject(storeKey(HashOf(DataH)),
                Blob(TRUE, <<Entry("data", 493, DataH),
                             Entry("header", 384, Marshal([Version |-> version]))>>)),
      OneObject(storeKey(HashOf(DataH)),
                Blob(TRUE, <<Entry("header", 384, Marshal([Version |-> version]))>>)),
      OneObject(storeKey(HashOf(DataH)), Blob(FALSE, <<>>)),
      OneObject(storeKey(HashOf(DataH)),
                Blob(TRUE, <<Entry("header", 384, Marshal([Version |-> version])),
                             Entry("payload", 493, DataH)>>)),
      OneObject(storeKey(HashOf(DataH)),
                Blob(TRUE, <<Entry("header", 384, Marshal([Version |-> 2])),
                             Entry("payload", 493, DataH)>>)),
      OneObject(storeKey(Rep(122, 40)), Pack([Version |-> version], DataH, 420)) }

NoFiles == [p \in {} |-> Dir]

Idle == [phase |-> "idle", path |-> <<>>, data |-> <<>>, mode |-> 0,
         fs |-> NoFiles, store |-> NoObjects, io |-> <<>>]

NoCall == [op |-> "none", path |-> <<>>, fault |-> "none", err |-> Nil, io |-> <<>>,
           gets |-> <<>>, fs |-> NoFiles, store |-> NoObjects]

Call(op, path, fault, r, gets) ==
    [op |-> op, path |-> path, fault |-> fault, err |-> r.err, io |-> r.io,
     gets |-> gets, fs |-> fs, store |-> store]

Init ==
    /\ \E t \in InitTargets, p \in InitPointers :
          \E withT \in BOOLEAN, withP \in BOOLEAN :
             fs = [q \in (IF withT THEN {PathA} ELSE {}) \cup
                         (IF withP THEN {PointerA} ELSE {}) |->
                      IF q = PathA THEN t ELSE File(p, PointerMode)]
    /\ store \in InitStores
    /\ last = NoCall
    /\ track = Idle
    /\ nops = 0

\* s3bin -put path
DoPut(path) ==
    /\ nops < MaxOps
    /\ \E in \in Faulted(PutFaults) :
          LET fault == in[1]
              r == Put(fs, store, path, fault, in[2])
          IN
          /\ fs' = r.fs
          /\ store' = r.store
          /\ last' = Call("Put", path, fault, r, <<>>)
          /\ track' =
                IF r.err /= Nil THEN Idle
                ELSE IF track.phase \in {"put", "putput"} /\ track.path = path
                THEN [track EXCEPT !.phase = "putput"]
                ELSE [phase |-> "put", path |-> path, data |-> fs[path].data,
                      mode |-> fs[path].mode, fs |-> r.fs, store |-> r.store,
                      io |-> r.io]
    /\ nops' = nops + 1

\* s3bin -get sha1File
DoGet(sha1File) ==
    /\ nops < MaxOps
    /\ \E in \in Faulted(GetFaults) :
          LET fault == in[1]
              r == Get(fs, store, sha1File, fault, in[2])
          IN
          /\ fs' = r.fs
          /\ store' = r.store
          /\ last' = Call("Get", sha1File, fault, r, <<>>)
          /\ track' =
                IF track.phase = "changed" /\ sha1File = track.path \o ExtSha1
                THEN [track EXCEPT !.phase = "got"]
                ELSE Idle
    /\ nops' = nops + 1

\* the user removes the file, or writes it anew
UserChange(path) ==
    /\ nops < MaxOps
    /\ \/ /\ path \in DOMAIN fs
          /\ fs' = RemoveNode(fs, path)
          /\ track' = IF track.phase = "put" /\ track.path = path
                      THEN [track EXCEPT !.phase = "changed"] ELSE Idle
       \/ \E file \in UserFiles :
             /\ fs' = WriteNode(fs, path, file)
             /\ track' = IF track.phase = "put" /\ track.path = path /\ file.data /= track.data
                         THEN [track EXCEPT !.phase = "changed"] ELSE Idle
    /\ last' = [NoCall EXCEPT !.op = "user", !.path = path, !.fs = fs, !.store = store]
    /\ store' = store
    /\ nops' = nops + 1

Next ==
    \/ DoPut(PathA)
    \/ \E sha1File \in {PointerA, PathA} : DoGet(sha1File)
    \/ UserChange(PathA)

Spec == Init /\ [][Next]_vars

(***************************************************************************)
(* The program run on a directory tree: s3bin -get-dir.  The tree is a     *)
(* chain of directories r, r/d, r/d/d, ... each holding a pointer file     *)
(* p.sha1 and perhaps its target p; r also holds b.txt.                    *)
(***************************************************************************)
\* the deepest nesting of directories below the root
MaxDepth == 2

\* the latest Get call of a walk that a fault is put on
MaxFaultAt == 3

\* "r"
Root == <<114>>

Join(dir, name) == dir \o Slash \o name

\* the directory at depth n: r/d/.../d
RECURSIVE DirAt(_)
DirAt(n) == IF n = 0 THEN Root ELSE Join(DirAt(n - 1), <<100>>)

\* "p"
NameP == <<112>>

\* "b.txt"
NameB == <<98, 46, 116, 120, 116>>

PointerAt(n) == Join(DirAt(n), NameP \o ExtSha1)

TargetAt(n) == Join(DirAt(n), NameP)

\* the tree of depth n with the pointer texts ptr[i] and, where has[i], the
\* target files
Tree(n, ptr, has) ==
    LET dirs == {DirAt(i) : i \in 0..n}
        ptrs == {PointerAt(i) : i \in 0..n}
        tgts == {TargetAt(i) : i \in {j \in 0..n : has[j]}}
        other == {Join(Root, NameB)}
    IN [q \in dirs \cup ptrs \cup tgts \cup other |->
          IF q \in dirs THEN Dir
          ELSE IF q \in ptrs THEN File(ptr[CHOOSE i \in 0..n : PointerAt(i) = q], PointerMode)
          ELSE IF q \in tgts THEN File(DataH, 493)
          ELSE File(DataX, 420)]

DirStores ==
    { NoObjects,
      OneObject(storeKey(HashOf(DataH)), Pack([Version |-> version], DataH, 493)) }

InitDir ==
    /\ \E n \in 0..MaxDepth :
          \E ptr \in [0..n -> {HashOf(DataH), HashOf(DataHI)}], has \in [0..n -> BOOLEAN] :
             fs = Tree(n, ptr, has)
    /\ store \in DirStores
    /\ last = NoCall
    /\ track = Idle
    /\ nops = 0

NoFault == [k |-> 0, fault |-> "none", cut |-> 0, wcall |-> "none", wpath |-> <<>>]

DirFaults ==
    {NoFault} \cup
    {[NoFault EXCEPT !.k = k, !.fault = fault] :
        k \in 1..MaxFaultAt, fault \in {"ReadFile", "GetObject", "Chmod"}} \cup
    {[NoFault EXCEPT !.wcall = "Lstat", !.wpath = path] : path \in {DirAt(1), PointerAt(0)}} \cup
    {[NoFault EXCEPT !.wcall = "ReadDir", !.wpath = path] : path \in {DirAt(0), DirAt(1)}}

\* s3bin -get-dir root
DoGetDir(root) ==
    /\ last.op = "none"
    /\ \E env \in DirFaults :
          LET r == GetDir([fs |-> fs, store |-> store, err |-> Nil, gets |-> <<>>], env, root) IN
          /\ fs' = r.fs
          /\ store' = r.store
          /\ last' = [op |-> "GetDir", path |-> root, fault |-> env.fault, err |-> r.err,
                      io |-> <<>>, gets |-> r.gets, fs |-> fs, store |-> store]
    /\ track' = Idle
    /\ nops' = nops + 1

NextDir == \E root \in {DirAt(0), DirAt(1)} : DoGetDir(root)

SpecDir == InitDir /\ [][NextDir]_vars

(***************************************************************************)
(* storeKey on its own: two digests are drawn, and their keys derived.     *)
(* The digests are 40 hexadecimal characters, "0" everywhere but at some   *)
(* of the places of KeyPlaces, where they have "f": the places are the     *)
(* ends of the segments storeKey cuts, the first the key leaves out, and   *)
(* the last of the digest.  Here track holds the two digests and last the  *)
(* two keys.                                                               *)
(***************************************************************************)
KeyPlaces == {1, 4, 5, 16, 17, 20, 21, 40}

DigestAt(places) == [i \in 1..40 |-> IF i \in places THEN 102 ELSE 48]

Digests == {DigestAt(places) : places \in SUBSET KeyPlaces}

InitKey ==
    /\ fs = NoFiles
    /\ store = NoObjects
    /\ last = NoCall
    /\ \E d1 \in Digests, d2 \in Digests : track = [phase |-> "digests", d1 |-> d1, d2 |-> d2]
    /\ nops = 0

\* lines 124-128 and 173-177: the key of each digest is derived
DoStoreKey ==
    /\ last.op = "none"
    /\ last' = [op |-> "storeKey", k1 |-> storeKey(track.d1), k2 |-> storeKey(track.d2)]
    /\ nops' = nops + 1
    /\ UNCHANGED <<fs, store, track>>

NextKey == DoStoreKey

SpecKey == InitKey /\ [][NextKey]_vars

(***************************************************************************)
(* Two invocations at once, on files of their own: Put or Get on a.bin and *)
(* its pointer file, Put or Get on b.bin and its pointer file, each from   *)
(* an execution context of its own, against one file system and one       *)
(* bucket.  An invocation advances by one call to the file system or to    *)
(* the bucket at a time, in the order of its code; the calls of the two    *)
(* interleave in every way.  Here track is the table of the two            *)
(* invocations: for each its operation, path and fault, the place pc it    *)
(* has reached, its local variables and, once it has returned, its error;  *)
(* last keeps the file system and the bucket they started from.            *)
(***************************************************************************)
\* "b.bin"
PathB == <<98, 46, 98, 105, 110>>

Procs == {1, 2}

PathOf(i) == IF i = 1 THEN PathA ELSE PathB

\* an invocation about to start
Started(op, path, fault) ==
    [op |-> op, path |-> path, fault |-> fault, cut |-> 0,
     pc |-> IF op = "Put" THEN "calcSha1" ELSE "ReadFile",
     hash |-> <<>>, mode |-> 0, body |-> Blob(FALSE, <<>>), err |-> Nil]

\* the result of one call: the invocation, the file system and the bucket
\* after it
At(p, f, s) == [p |-> p, fs |-> f, store |-> s]

Goto(p, pc) == [p EXCEPT !.pc = pc]

Return(p, err) == [p EXCEPT !.pc = "done", !.err = err]

\* lines 63-141, one call at a time
PutStep(p, f, s) ==
    CASE p.pc = "calcSha1" ->
           LET h == calcSha1(f, p.path, p.fault) IN
           IF h.err /= Nil THEN At(Return(p, h.err), f, s)
           ELSE At([Goto(p, "Open") EXCEPT !.hash = h.hash], f, s)
      [] p.pc = "Open" ->
           IF p.fault = "Open"
           THEN At(Return(p, Wrap(ErrSys("EACCES"), "failed to open file")), f, s)
           ELSE At(Goto(p, "Stat"), f, s)
      [] p.pc = "Stat" ->
           IF p.fault = "Stat"
           THEN At(Return(p, Wrap(ErrSys("EIO"), "failed to read file attributes")), f, s)
           ELSE At([Goto(p, "Copy") EXCEPT !.mode = f[p.path].mode], f, s)
      [] p.pc = "Copy" ->
           IF p.fault = "Copy"
           THEN At(Return(p, Wrap(ErrSys("EIO"), "failed to read file")), f, s)
           ELSE At([Goto(p, "PutObject") EXCEPT
                      !.body = Pack([Version |-> version], f[p.path].data, p.mode)], f, s)
      [] p.pc = "PutObject" ->
           IF p.fault = "PutObject"
           THEN At(Return(p, Wrap(ErrSys("RequestError"), "failed to write file in s3")), f, s)
           ELSE At(Goto(p, "WriteFile"), f, PutObject(s, storeKey(p.hash), p.body))
      [] p.pc = "WriteFile" ->
           LET w == WriteFile(f, p.path \o ExtSha1, p.hash, p.fault, p.cut) IN
           At(Return(p, Wrap(w.err, "failed to create hash file")), w.fs, s)

\* lines 143-242, one call at a time; Unpack stands for the reading of the
\* object got (lines 186-223), which touches neither files nor bucket
GetStep(p, f, s) ==
    LET targetFile == TrimSuffix(p.path, ExtSha1) IN
    CASE p.pc = "ReadFile" ->
           IF targetFile = p.path
           THEN At(Return(p, ErrNew("SHA1 file doesn't have .sha1 extension")), f, s) ELSE
           IF p.path \notin DOMAIN f
           THEN At(Return(p, Wrap(ErrSys("ENOENT"), "failed to read sha1 file")), f, s) ELSE
           IF p.fault = "ReadFile"
           THEN At(Return(p, Wrap(ErrSys("EACCES"), "failed to read sha1 file")), f, s) ELSE
           IF f[p.path].kind = "dir"
           THEN At(Return(p, Wrap(ErrSys("EISDIR"), "failed to read sha1 file")), f, s) ELSE
           LET sha1Str == PointerDigest(f[p.path].data) IN
           IF Len(sha1Str) /= 40
           THEN At(Return(p, Wrap(Nil, "sha1 file is invalid")), f, s)
           ELSE At([Goto(p, "calcSha1") EXCEPT !.hash = sha1Str], f, s)
      [] p.pc = "calcSha1" ->
           LET h == calcSha1(f, targetFile, p.fault) IN
           IF h.err = Nil /\ h.hash = p.hash THEN At(Return(p, Nil), f, s) ELSE
           IF h.err /= Nil /\ ~IsNotExist(h.err) THEN At(Return(p, h.err), f, s)
           ELSE At(Goto(p, "GetObject"), f, s)
      [] p.pc = "GetObject" ->
           IF p.fault = "GetObject" \/ storeKey(p.hash) \notin DOMAIN s
           THEN At(Return(p, Wrap(ErrSys(IF p.fault = "GetObject" THEN "RequestError"
                                         ELSE "NoSuchKey"),
                                  "failed to read from S3 bucket")), f, s)
           ELSE At([Goto(p, "Unpack") EXCEPT !.body = s[storeKey(p.hash)]], f, s)
      [] p.pc = "Unpack" ->
           IF ~p.body.gzip
           THEN At(Return(p, Wrap(ErrSys("gzip: invalid header"),
                                  "failed to create gzip reader")), f, s) ELSE
           IF Len(p.body.tar) < 1
           THEN At(Return(p, Wrap(ErrSys("EOF"), "tarReader.Next")), f, s) ELSE
           IF p.body.tar[1].name /= "header"
           THEN At(Return(p, ErrNew("tar does not have 'header'")), f, s) ELSE
           LET u == Unmarshal(p.body.tar[1].body) IN
           IF u.err /= Nil THEN At(Return(p, Wrap(u.err, "json.Unmarshal")), f, s) ELSE
           IF u.header.Version /= version
           THEN At(Return(p, Wrap(u.err, "unsupported version")), f, s) ELSE
           IF Len(p.body.tar) < 2
           THEN At(Return(p, Wrap(ErrSys("EOF"), "tarReader.Next")), f, s) ELSE
           IF p.body.tar[2].name /= "data"
           THEN At(Return(p, ErrNew("tar does not have 'data'")), f, s)
           ELSE At(Goto(p, "Create"), f, s)
      [] p.pc = "Create" ->
           IF p.fault = "Create"
           THEN At(Return(p, Wrap(ErrSys("EACCES"), "failed to create target file")), f, s) ELSE
           IF targetFile \in DOMAIN f /\ f[targetFile].kind = "dir"
           THEN At(Return(p, Wrap(ErrSys("EISDIR"), "failed to create target file")), f, s)
           ELSE LET mode == IF targetFile \in DOMAIN f THEN f[targetFile].mode
                            ELSE DefaultMode
                IN At(Goto(p, "Copy"), WriteNode(f, targetFile, File(<<>>, mode)), s)
      [] p.pc = "Copy" ->
           IF p.fault = "Copy"
           THEN At(Return(p, Wrap(ErrSys("EIO"), "failed to copy file")),
                   WriteNode(f, targetFile,
                             File(Prefix(p.body.tar[2].body, p.cut), f[targetFile].mode)), s)
           ELSE At(Goto(p, "Chmod"),
                   WriteNode(f, targetFile, File(p.body.tar[2].body, f[targetFile].mode)), s)
      [] p.pc = "Chmod" ->
           IF p.fault = "Chmod"
           THEN At(Return(p, Wrap(ErrSys("EPERM"), "failed to set file mode")), f, s)
           ELSE At(Return(p, Nil),
                   WriteNode(f, targetFile,
                             File(f[targetFile].data, Perm(p.body.tar[2].mode))), s)

\* the faults put on an invocation
ConcFaults(op) ==
    IF op = "Put" THEN {"none", "PutObject", "WriteFile.Write"}
    ELSE {"none", "GetObject", "Chmod"}

\* the invocations that may start on the file at path
Invocations(path) ==
    {Started("Put", path, fault) : fault \in ConcFaults("Put")} \cup
    {Started("Get", path \o ExtSha1, fault) : fault \in ConcFaults("Get")}

\* the file system with the nodes given: for each path one node or none
FsOf(nodes) ==
    [q \in {x \in DOMAIN nodes : nodes[x] /= {}} |-> CHOOSE n \in nodes[q] : TRUE]

\* the two files may have digests with one key ("HI" and "X"), and the
\* bucket may hold an object under that key
InitConc ==
    /\ \E a \in {{}, {File(DataHI, 420)}, {File(DataH, 493)}},
          pa \in {{}, {File(HashOf(DataHI), PointerMode)}},
          b \in {{}, {File(DataX, 420)}},
          pb \in {{}, {File(HashOf(DataX), PointerMode)}, {File(HashOf(DataH), PointerMode)}} :
          fs = FsOf([q \in {PathA, PathA \o ExtSha1, PathB, PathB \o ExtSha1} |->
                        IF q = PathA THEN a
                        ELSE IF q = PathA \o ExtSha1 THEN pa
                        ELSE IF q = PathB THEN b ELSE pb])
    /\ store \in { NoObjects,
                    OneObject(storeKey(HashOf(DataHI)), Pack([Version |-> version], DataX, 420)),
                    OneObject(storeKey(HashOf(DataH)), Pack([Version |-> version], DataH, 493)) }
    /\ track \in [Procs -> Invocations(PathA) \cup Invocations(PathB)]
    /\ \A i \in Procs : track[i] \in Invocations(PathOf(i))
    /\ last = [NoCall EXCEPT !.op = "start", !.fs = fs, !.store = store]
    /\ nops = 0

\* the next call of invocation i, a Put
DoPutStep(i) ==
    /\ track[i].op = "Put"
    /\ track[i].pc /= "done"
    /\ LET r == PutStep(track[i], fs, store) IN
          /\ fs' = r.fs
          /\ store' = r.store
          /\ track' = [track EXCEPT ![i] = r.p]
    /\ UNCHANGED <<last, nops>>

\* the next call of invocation i, a Get
DoGetStep(i) ==
    /\ track[i].op = "Get"
    /\ track[i].pc /= "done"
    /\ LET r == GetStep(track[i], fs, store) IN
          /\ fs' = r.fs
          /\ store' = r.store
          /\ track' = [track EXCEPT ![i] = r.p]
    /\ UNCHANGED <<last, nops>>

NextConc == \E i \in Procs : DoPutStep(i) \/ DoGetStep(i)

SpecConc == InitConc /\ [][NextConc]_vars

(***************************************************************************)
(* Properties.  They speak of the last invocation: last.fs and last.store  *)
(* are the file system and the bucket it started from, fs and store what   *)
(* it left.                                                                *)
(***************************************************************************)
\* the calls to the bucket among the calls made
StoreCalls(io) == SelectSeq(io, LAMBDA e : e.call \in {"GetObject", "PutObject"})

\* the path Get writes to
LastTarget == SubSeq(last.path, 1, Len(last.path) - Len(ExtSha1))

\* the last invocation was a Get that read its pointer file
PointerRead ==
    /\ last.op = "Get"
    /\ HasSuffix(last.path, ExtSha1)
    /\ last.path \in DOMAIN last.fs
    /\ last.fs[last.path].kind = "file"
    /\ last.fault /= "ReadFile"

\* the digest of the pointer file read: trimmed and in lower case
LastDigest == ToLower(TrimSpace(last.fs[last.path].data))

\* the target was there and calcSha1 read it
TargetHashed ==
    /\ LastTarget \in DOMAIN last.fs
    /\ last.fs[LastTarget].kind = "file"
    /\ last.fault \notin {"calcSha1.Open", "calcSha1.Read"}

UpToDate == PointerRead /\ TargetHashed /\ HashOf(last.fs[LastTarget].data) = LastDigest

\* 40 hexadecimal characters
WellFormed(text) == Len(text) = 40 /\ \A i \in 1..Len(text) : IsHexChar(text[i])

\* deriveKey of the specification: five segments of four characters of the
\* digest, joined by "/"
DeriveKey(digest) ==
    [i \in 1..24 |-> IF i % 5 = 0 THEN 47 ELSE digest[i - (i \div 5)]]

\* C1: a Get whose target is there, is read, and has the digest of the
\* pointer file (trimmed, lower case) returns success, sends no request to
\* the bucket and leaves the target's content and mode as they were.
C1_UpToDateIsNoop ==
    UpToDate =>
        /\ last.err = Nil
        /\ StoreCalls(last.io) = <<>>
        /\ LastTarget \in DOMAIN fs
        /\ fs[LastTarget] = last.fs[LastTarget]

\* C1 happens, with a pointer file that is not in lower case and trimmed
C1_Witness == UpToDate /\ last.fs[last.path].data /= LastDigest /\ last.err = Nil

\* the object the last Get was given by the bucket, if any
Fetched ==
    IF /\ last.op = "Get"
       /\ last.fault /= "GetObject"
       /\ StoreCalls(last.io) /= <<>>
       /\ StoreCalls(last.io)[1].arg \in DOMAIN last.store
    THEN {last.store[StoreCalls(last.io)[1].arg]}
    ELSE {}

\* the header of an object names a version other than 1
OtherVersion(body) ==
    /\ body.gzip
    /\ Len(body.tar) >= 1
    /\ body.tar[1].name = "header"
    /\ Unmarshal(body.tar[1].body).err = Nil
    /\ Unmarshal(body.tar[1].body).header.Version /= 1

\* C2: whenever Get has returned success, the target exists and its digest
\* is the one of the pointer file, whatever object the bucket holds.  Stated
\* for the pointer files that hold a digest and the objects whose header is
\* of version 1, where malformed pointer files (C4) and other versions (C5)
\* play no part.
C2_GetVerifiesIntegrity ==
    (/\ PointerRead
     /\ WellFormed(TrimSpace(last.fs[last.path].data))
     /\ \A body \in Fetched : ~OtherVersion(body)
     /\ last.err = Nil) =>
        /\ LastTarget \in DOMAIN fs
        /\ fs[LastTarget].kind = "file"
        /\ HashOf(fs[LastTarget].data) = LastDigest

\* C3: after a successful Put of a file with content B and mode m, and the
\* file then removed or replaced by other content, a successful Get of its
\* pointer file leaves the file with content B and mode m.
C3_RoundTrip ==
    (track.phase = "got" /\ last.err = Nil) =>
        /\ track.path \in DOMAIN fs
        /\ fs[track.path] = File(track.data, track.mode)

\* C3 happens: the file was removed, and Get brought it back with a mode
\* that is not the one os.Create gives
C3_Witness ==
    /\ track.phase = "got"
    /\ last.err = Nil
    /\ track.path \notin DOMAIN last.fs
    /\ track.mode /= DefaultMode
    /\ track.path \in DOMAIN fs

\* C4: Get fails whenever the trimmed content of the pointer file is not 40
\* hexadecimal characters.
C4_MalformedPointerFails ==
    (PointerRead /\ ~WellFormed(TrimSpace(last.fs[last.path].data))) => last.err /= Nil

\* C5: Get fails when the header of the Envelope it fetched has a version
\* other than 1.
C5_UnsupportedVersionFails ==
    \A body \in Fetched : OtherVersion(body) => last.err /= Nil

\* C6: Get on a path that does not end in ".sha1" returns the naming error
\* and has made no call to the file system or the bucket.
C6_NamingErrorBeforeAnyAccess ==
    (last.op = "Get" /\ ~HasSuffix(last.path, ExtSha1)) =>
        /\ last.err = ErrNew("SHA1 file doesn't have .sha1 extension")
        /\ last.io = <<>>
        /\ fs = last.fs
        /\ store = last.store

\* C6 happens, on a path that names a file
C6_Witness ==
    /\ last.op = "Get"
    /\ ~HasSuffix(last.path, ExtSha1)
    /\ last.path \in DOMAIN last.fs
    /\ last.err /= Nil

\* C9: a second successful Put of the unchanged file makes the calls the
\* first made (the same key) and leaves the bucket and the file system as
\* the first Put left them.
C9_PutIdempotent ==
    track.phase = "putput" =>
        /\ last.op = "Put"
        /\ last.err = Nil
        /\ last.io = track.io
        /\ store = track.store
        /\ fs = track.fs

\* C9 happens, the pointer file having been there before the second Put
C9_Witness ==
    /\ track.phase = "putput"
    /\ last.path \o ExtSha1 \in DOMAIN last.fs
    /\ StoreCalls(last.io) /= <<>>

\* C10: a Get that read a pointer file with a digest D of 40 characters
\* sends one request to the bucket, a read of deriveKey(D), if the target is
\* absent or has another digest, and none otherwise; any other Get sends
\* none.
C10_FetchIffAbsentOrDifferent ==
    last.op = "Get" =>
        StoreCalls(last.io) =
            IF /\ PointerRead
               /\ Len(LastDigest) = 40
               /\ \/ LastTarget \notin DOMAIN last.fs
                  \/ TargetHashed /\ HashOf(last.fs[LastTarget].data) /= LastDigest
            THEN <<Ev("GetObject", DeriveKey(LastDigest))>>
            ELSE <<>>

\* C10 happens: the target was there with another digest, and was fetched
C10_Witness ==
    /\ PointerRead
    /\ TargetHashed
    /\ WellFormed(LastDigest)
    /\ HashOf(last.fs[LastTarget].data) /= LastDigest
    /\ StoreCalls(last.io) = <<Ev("GetObject", DeriveKey(LastDigest))>>
    /\ last.err = Nil
    /\ fs[LastTarget] /= last.fs[LastTarget]

(***************************************************************************)
(* Properties of GetDir, under SpecDir.  last.gets is the trace of the     *)
(* walk: its Get calls, and the call of the walk itself that failed.       *)
(***************************************************************************)
IsUnder(path, root) ==
    Len(path) > Len(root) + 1 /\ SubSeq(path, 1, Len(root) + 1) = root \o Slash

\* the regular files below root whose name ends in ".sha1"
PointersUnder(f, root) ==
    {p \in DOMAIN f : f[p].kind = "file" /\ HasSuffix(p, ExtSha1) /\ IsUnder(p, root)}

\* the number of Get calls on path
GetCount(path) ==
    Cardinality({i \in 1..Len(last.gets) :
                    last.gets[i].call = "Get" /\ last.gets[i].path = path})

AllSucceeded ==
    /\ last.op = "GetDir"
    /\ last.err = Nil
    /\ \A i \in 1..Len(last.gets) : last.gets[i].err = Nil

\* C7: when every Get succeeds, GetDir calls Get exactly once on each
\* regular file below the root whose name ends in ".sha1", and on nothing
\* else.
C7_GetOncePerPointer ==
    AllSucceeded =>
        /\ \A p \in PointersUnder(last.fs, last.path) : GetCount(p) = 1
        /\ \A i \in 1..Len(last.gets) :
              last.gets[i].path \in PointersUnder(last.fs, last.path)

\* C8: once a Get call, at any depth, or a call of the walk has returned an
\* error, no further Get is called and GetDir returns that error.
C8_FirstErrorStopsBatch ==
    last.op = "GetDir" =>
        /\ \A i \in 1..(Len(last.gets) - 1) : last.gets[i].err = Nil
        /\ last.err = IF last.gets = <<>> THEN Nil ELSE last.gets[Len(last.gets)].err

\* C8 happens: a Get in a subdirectory failed, GetDir on the root returned
\* its error, and a pointer file of the tree was never given to Get
C8_Witness ==
    /\ last.op = "GetDir"
    /\ last.path = Root
    /\ last.gets /= <<>>
    /\ last.gets[Len(last.gets)].call = "Get"
    /\ IsUnder(last.gets[Len(last.gets)].path, DirAt(1))
    /\ last.err /= Nil
    /\ \E p \in PointersUnder(last.fs, Root) : GetCount(p) = 0

(***************************************************************************)
(* Properties of the Envelope's entries, under Spec.                       *)
(***************************************************************************)
\* the first entry of the archive is not "header", or its second is not
\* "data"
Misnamed(body) ==
    /\ body.gzip
    /\ \/ Len(body.tar) >= 1 /\ body.tar[1].name /= "header"
       \/ Len(body.tar) >= 2 /\ body.tar[2].name /= "data"

\* C11: Get fails when the first entry of the Envelope it fetched is not
\* named "header" or its second entry is not named "data".
C11_MisnamedEntryFails ==
    \A body \in Fetched : Misnamed(body) => last.err /= Nil

(***************************************************************************)
(* Properties of storeKey, under SpecKey.                                  *)
(***************************************************************************)
\* C12: the key is a function of the digest text (one digest, one key), and
\* two digests of 40 hexadecimal characters that differ somewhere in their
\* first 20 characters have different keys.
C12_KeyInjectiveOnFirst20 ==
    last.op = "storeKey" =>
        /\ track.d1 = track.d2 => last.k1 = last.k2
        /\ SubSeq(track.d1, 1, 20) /= SubSeq(track.d2, 1, 20) => last.k1 /= last.k2

\* C12 happens, for two digests that differ at their 20th character only
C12_Witness ==
    /\ last.op = "storeKey"
    /\ {i \in 1..40 : track.d1[i] /= track.d2[i]} = {20}
    /\ last.k1 /= last.k2

(***************************************************************************)
(* Properties of the order and the reach of the effects of Put and Get,    *)
(* under Spec.                                                             *)
(***************************************************************************)
\* what is at path p of file system f: the node, or nothing
NodeAt(f, p) == IF p \in DOMAIN f THEN {f[p]} ELSE {}

\* the calls of the given name among the calls made
CallsOf(io, call) == SelectSeq(io, LAMBDA e : e.call = call)

\* the upload of the last Put was made and succeeded
Uploaded == CallsOf(last.io, "PutObject") /= <<>> /\ last.fault /= "PutObject"

\* C13: a Put whose upload, or a step before it, failed returns an error
\* and leaves the pointer file as it was, absent or not; and when Put has
\* written to the pointer file, the upload had succeeded: the bucket holds
\* at deriveKey(D) the Envelope of the file, D being the file's digest, and
\* the pointer file holds D (after a write that failed, what got out of D).
C13_PointerOnlyAfterUpload ==
    last.op = "Put" =>
        LET ptr == last.path \o ExtSha1 IN
        /\ ~Uploaded =>
              /\ last.err /= Nil
              /\ NodeAt(fs, ptr) = NodeAt(last.fs, ptr)
              /\ CallsOf(last.io, "WriteFile") = <<>>
        /\ NodeAt(fs, ptr) /= NodeAt(last.fs, ptr) =>
              LET D == HashOf(last.fs[last.path].data) IN
              /\ Uploaded
              /\ DeriveKey(D) \in DOMAIN store
              /\ store[DeriveKey(D)] =
                    Pack([Version |-> 1], last.fs[last.path].data, last.fs[last.path].mode)
              /\ fs[ptr].data = SubSeq(D, 1, Len(fs[ptr].data))
              /\ last.err = Nil => fs[ptr].data = D

\* C13 happens: the upload failed, and the pointer file, which named
\* something else, is as it was
C13_Witness ==
    /\ last.op = "Put"
    /\ last.fault = "PutObject"
    /\ last.err /= Nil
    /\ last.path \in DOMAIN last.fs
    /\ last.path \o ExtSha1 \in DOMAIN last.fs
    /\ last.fs[last.path \o ExtSha1].data /= HashOf(last.fs[last.path].data)
    /\ fs = last.fs

\* the last Get asked the bucket and was refused: the request failed, or
\* there is no object under the key
Refused ==
    /\ last.op = "Get"
    /\ CallsOf(last.io, "GetObject") /= <<>>
    /\ Fetched = {}

\* the object cannot be unpacked: it is no gzip stream, its archive ends
\* before the second entry, or its header is no JSON document
Damaged(body) ==
    \/ ~body.gzip
    \/ Len(body.tar) < 2
    \/ body.tar[1].name = "header" /\ Unmarshal(body.tar[1].body).err /= Nil

\* C14: when Get stops at a failure of the bucket (no object under the key
\* among them), at an object that cannot be decompressed or unpacked, at a
\* first entry not named "header", at a header of a version other than 1 or
\* at a second entry not named "data", the target is as it was before the
\* call: absent if it was absent, with its content and mode if it was
\* there, as is every other file.
C14_TargetUntouchedOnBadEnvelope ==
    (Refused \/ \E body \in Fetched : Damaged(body) \/ Misnamed(body) \/ OtherVersion(body)) =>
        /\ NodeAt(fs, LastTarget) = NodeAt(last.fs, LastTarget)
        /\ fs = last.fs
        /\ CallsOf(last.io, "Create") = <<>>

\* C14 happens: the target was there with another digest than the pointer
\* file's, the object fetched had its entries misnamed, and the target is
\* as it was
C14_Witness ==
    /\ \E body \in Fetched : Misnamed(body)
    /\ TargetHashed
    /\ HashOf(last.fs[LastTarget].data) /= LastDigest
    /\ last.err /= Nil
    /\ fs[LastTarget] = last.fs[LastTarget]

\* the last Get read a pointer file with a digest of 40 characters, its
\* target was there, and opening it or reading it failed
TargetUnreadable ==
    /\ PointerRead
    /\ Len(LastDigest) = 40
    /\ LastTarget \in DOMAIN last.fs
    /\ last.fault \in {"calcSha1.Open", "calcSha1.Read"}

\* C15: when the target is there and cannot be opened or read, Get returns
\* the error of that call, sends no request to the bucket and leaves the
\* file system as it was; when the target is not there, Get asks the
\* bucket.
C15_UnreadableTargetIsFatal ==
    /\ TargetUnreadable =>
          /\ last.err = IF last.fault = "calcSha1.Open"
                        THEN [msg |-> "failed to open file", cause |-> "EACCES"]
                        ELSE [msg |-> "failed to read file", cause |-> "EIO"]
          /\ StoreCalls(last.io) = <<>>
          /\ fs = last.fs
          /\ store = last.store
    /\ (PointerRead /\ Len(LastDigest) = 40 /\ LastTarget \notin DOMAIN last.fs) =>
          CallsOf(last.io, "GetObject") /= <<>>

\* C15 happens, with a bucket that holds the object of the pointer file
C15_Witness ==
    /\ TargetUnreadable
    /\ last.fault = "calcSha1.Open"
    /\ DeriveKey(LastDigest) \in DOMAIN last.store
    /\ HashOf(last.fs[LastTarget].data) /= LastDigest
    /\ last.err /= Nil
    /\ fs = last.fs

\* body is an Envelope as Put stores it under key k: a header and the data
\* of a file whose digest has the key k
StoredByPut(k, body) ==
    /\ body.gzip
    /\ Len(body.tar) = 2
    /\ body.tar[1].name = "header"
    /\ body.tar[2].name = "data"
    /\ body.tar[2].body \in Contents
    /\ k = DeriveKey(HashOf(body.tar[2].body))

\* the digest of the file an Envelope was stored for
DigestIn(body) == HashOf(body.tar[2].body)

\* C16, as claimed: the key covers the whole digest, so a Put of a file
\* with digest D2 that has uploaded leaves in place every Envelope that a
\* Put of a file with another digest D1 has stored.
C16_PutNeverReplacesOtherDigest ==
    (last.op = "Put" /\ Uploaded) =>
        \A k \in DOMAIN last.store :
            (/\ StoredByPut(k, last.store[k])
             /\ DigestIn(last.store[k]) /= HashOf(last.fs[last.path].data)) =>
                store[k] = last.store[k]

\* C16, amended: the key covers the first 20 characters of the digest.  A
\* Put of a file with digest D2 that has uploaded has written the bucket
\* at deriveKey(D2) and nowhere else, so it leaves in place every Envelope
\* stored for a digest D1 that differs from D2 in its first 20 characters.
C16_PutReplacesOnlyItsKey ==
    (last.op = "Put" /\ Uploaded) =>
        LET D2 == HashOf(last.fs[last.path].data) IN
        /\ DOMAIN store = (DOMAIN last.store) \cup {DeriveKey(D2)}
        /\ \A k \in DOMAIN last.store : k /= DeriveKey(D2) => store[k] = last.store[k]
        /\ \A k \in DOMAIN last.store :
              (/\ StoredByPut(k, last.store[k])
               /\ SubSeq(DigestIn(last.store[k]), 1, 20) /= SubSeq(D2, 1, 20)) =>
                  store[k] = last.store[k]

\* C16 happens: the bucket held the Envelope of another digest, Put has
\* uploaded, and the bucket holds both
C16_Witness ==
    /\ last.op = "Put"
    /\ Uploaded
    /\ last.err = Nil
    /\ \E k \in DOMAIN last.store :
          /\ StoredByPut(k, last.store[k])
          /\ k /= DeriveKey(HashOf(last.fs[last.path].data))
          /\ k \in DOMAIN store
          /\ store[k] = last.store[k]
          /\ DeriveKey(HashOf(last.fs[last.path].data)) \in DOMAIN store

\* the paths at which file systems f and g differ
ChangedPaths(f, g) == {q \in (DOMAIN f) \cup (DOMAIN g) : NodeAt(f, q) /= NodeAt(g, q)}

\* C17: whatever Put(path) returns, the file at path has the content and
\* the mode it had, no local file other than path + ".sha1" was created or
\* changed, and Put has made at most one write to the bucket and no read:
\* at most one key of the bucket has changed.
C17_PutFrame ==
    last.op = "Put" =>
        /\ NodeAt(fs, last.path) = NodeAt(last.fs, last.path)
        /\ ChangedPaths(fs, last.fs) \subseteq {last.path \o ExtSha1}
        /\ Len(CallsOf(last.io, "PutObject")) <= 1
        /\ CallsOf(last.io, "GetObject") = <<>>
        /\ Cardinality(ChangedPaths(store, last.store)) <= 1
        /\ CallsOf(last.io, "PutObject") = <<>> => store = last.store

\* C17 happens: Put has uploaded and created the pointer file
C17_Witness ==
    /\ last.op = "Put"
    /\ last.err = Nil
    /\ last.path \o ExtSha1 \notin DOMAIN last.fs
    /\ ChangedPaths(fs, last.fs) = {last.path \o ExtSha1}
    /\ Cardinality(ChangedPaths(store, last.store)) = 1
    /\ fs[last.path] = last.fs[last.path]

\* C18: whatever Get(pointerPath) returns, the bucket is as it was, the
\* pointer file is as it was, no local file other than the target was
\* created or changed, and Get has made at most one read of the bucket and
\* no write.
C18_GetFrame ==
    last.op = "Get" =>
        /\ store = last.store
        /\ NodeAt(fs, last.path) = NodeAt(last.fs, last.path)
        /\ ChangedPaths(fs, last.fs) \subseteq
              (IF HasSuffix(last.path, ExtSha1) THEN {LastTarget} ELSE {})
        /\ Len(CallsOf(last.io, "GetObject")) <= 1
        /\ CallsOf(last.io, "PutObject") = <<>>

\* C18 happens: Get has read the bucket and created the target
C18_Witness ==
    /\ PointerRead
    /\ last.err = Nil
    /\ LastTarget \notin DOMAIN last.fs
    /\ Len(CallsOf(last.io, "GetObject")) = 1
    /\ ChangedPaths(fs, last.fs) = {LastTarget}
    /\ fs[last.path] = last.fs[last.path]
    /\ store = last.store

\* an Envelope that Get accepts: a header of version 1, then the data
Valid(body) == ~Damaged(body) /\ ~Misnamed(body) /\ ~OtherVersion(body)

\* the last Get read a pointer file with a digest of 40 characters, and the
\* bucket held a valid Envelope under the key of that digest
PointerToEnvelope ==
    /\ PointerRead
    /\ Len(LastDigest) = 40
    /\ DeriveKey(LastDigest) \in DOMAIN last.store
    /\ Valid(last.store[DeriveKey(LastDigest)])

\* the mode the Envelope of the pointer file records
RecordedMode == last.store[DeriveKey(LastDigest)].tar[2].mode

\* C19, as claimed: whenever Get returns success for a pointer file whose
\* Envelope records mode m, the target is there with permission bits m,
\* whatever the files were before (so also when an earlier Get wrote the
\* content and failed to set the mode).
C19_SuccessMeansRecordedMode ==
    (PointerToEnvelope /\ last.err = Nil) =>
        /\ LastTarget \in DOMAIN fs
        /\ fs[LastTarget].mode = Perm(RecordedMode)

\* C19, amended: whenever Get returns success having written the target,
\* as it does when it finds the target absent or with another digest than
\* the pointer file's and the bucket holds a valid Envelope, the target has
\* the content and the permission bits m the Envelope records; a Get that
\* finds the target with the digest of the pointer file leaves its mode as
\* it is, m or not.
C19_ModeRestoredWhenFetched ==
    /\ (last.op = "Get" /\ last.err = Nil /\ CallsOf(last.io, "Create") /= <<>>) =>
          /\ Fetched /= {}
          /\ \A body \in Fetched :
                fs[LastTarget] = File(body.tar[2].body, Perm(body.tar[2].mode))
    /\ (/\ PointerToEnvelope
        /\ last.err = Nil
        /\ \/ LastTarget \notin DOMAIN last.fs
           \/ TargetHashed /\ HashOf(last.fs[LastTarget].data) /= LastDigest) =>
          /\ LastTarget \in DOMAIN fs
          /\ fs[LastTarget] = File(last.store[DeriveKey(LastDigest)].tar[2].body,
                                    Perm(RecordedMode))
    /\ UpToDate =>
          /\ last.err = Nil
          /\ LastTarget \in DOMAIN fs
          /\ fs[LastTarget].mode = last.fs[LastTarget].mode

\* C19 happens: the target was there with another content and another
\* mode, and Get left it with the mode of the Envelope
C19_Witness ==
    /\ PointerToEnvelope
    /\ last.err = Nil
    /\ TargetHashed
    /\ HashOf(last.fs[LastTarget].data) /= LastDigest
    /\ last.fs[LastTarget].mode /= Perm(RecordedMode)
    /\ fs[LastTarget].mode = Perm(RecordedMode)

(***************************************************************************)
(* Properties of two invocations at once, under SpecConc.                  *)
(***************************************************************************)
\* invocation p run alone and to its end on file system f and bucket s
RunAlone(p, f, s) ==
    IF p.op = "Put" THEN Put(f, s, p.path, p.fault, p.cut)
    ELSE Get(f, s, p.path, p.fault, p.cut)

\* what is left, and what each returned, when invocation i runs to its end
\* and then invocation j does
Serial(i, j) ==
    LET ri == RunAlone(track[i], last.fs, last.store)
        rj == RunAlone(track[j], ri.fs, ri.store)
    IN [fs |-> rj.fs, store |-> rj.store,
        err |-> [k \in Procs |-> IF k = i THEN ri.err ELSE rj.err]]

\* what is left, and what each returned, now
Outcome == [fs |-> fs, store |-> store, err |-> [k \in Procs |-> track[k].err]]

BothDone == \A i \in Procs : track[i].pc = "done"

\* C20: when two invocations, each a Put or a Get, on files and pointer
\* files of their own have both returned, however their calls
\* interleaved, the file system, the bucket and the two results are those
\* of running one to its end and then the other, in one of the two orders.
C20_InterleavingsAreSerial ==
    BothDone => Outcome \in {Serial(1, 2), Serial(2, 1)}

\* C20 happens where the order matters: the two orders leave different
\* outcomes, both invocations wrote, and what is left is what running the
\* second before the first leaves
C20_Witness ==
    /\ BothDone
    /\ \A i \in Procs : track[i].err = Nil
    /\ Serial(1, 2) /= Serial(2, 1)
    /\ Outcome = Serial(2, 1)
    /\ store /= last.store
    /\ ChangedPaths(fs, last.fs) /= {}

====
